---- MODULE Spec2Model ----
(***************************************************************************)
(* TrueNorth LED wall estimator: the pricing engine of                     *)
(* led_wall_estimator.py (the "transparent" variant: shipping and extras   *)
(* itemised) and of led_wall_estimator_profit_Version3.py (the "masked"    *)
(* variant: a tier markup), and the Streamlit scripts that call it.        *)
(*                                                                         *)
(* Numbers.  Python floats are modelled as exact rationals <<n, d>> in     *)
(* lowest terms with d > 0; the rounding of IEEE-754 doubles is not        *)
(* modelled.  <<0, 0>> stands for a raised ZeroDivisionError, which a      *)
(* function propagates to its caller as [exc |-> "ZeroDivisionError"].     *)
(* Python ints (qty, cols, rows, the percentages) are TLA+ integers.       *)
(* Text is a sequence of one-character strings.                            *)
(***************************************************************************)
EXTENDS Integers, Sequences, FiniteSets, TLC

VARIABLES
    cols, rows, qty, price_mode, custom_price_m2, controller_cost,
    shipping_pct, extra_items_data, extras, result,
    pricing_tier, markup_pct, result_v3,
    admin_key, requested_tier,
    low_qty, low_price, high_qty, high_price, rate, rate_v3,
    prev

vars == <<cols, rows, qty, price_mode, custom_price_m2, controller_cost,
          shipping_pct, extra_items_data, extras, result,
          pricing_tier, markup_pct, result_v3,
          admin_key, requested_tier,
          low_qty, low_price, high_qty, high_price, rate, rate_v3,
          prev>>

(***************************************************************************)
(* Float arithmetic (exact).                                               *)
(***************************************************************************)
Abs(x) == IF x < 0 THEN -x ELSE x

RECURSIVE Gcd(_, _)
Gcd(a, b) == IF b = 0 THEN a ELSE Gcd(b, a % b)

Frac(n, d) ==
    LET g == Gcd(Abs(n), Abs(d))
        s == IF d < 0 THEN -1 ELSE 1
    IN  <<(s * n) \div g, (s * d) \div g>>

Float(i) == <<i, 1>>

DivByZero == <<0, 0>>

Raised(x) == x[2] = 0

FAdd(x, y) == Frac(x[1] * y[2] + y[1] * x[2], x[2] * y[2])

FSub(x, y) == Frac(x[1] * y[2] - y[1] * x[2], x[2] * y[2])

FMul(x, y) == Frac(x[1] * y[1], x[2] * y[2])

FDiv(x, y) == IF y[1] = 0 THEN DivByZero ELSE Frac(x[1] * y[2], x[2] * y[1])

FLe(x, y) == x[1] * y[2] <= y[1] * x[2]

FLt(x, y) == x[1] * y[2] < y[1] * x[2]

(***************************************************************************)
(* led_wall_estimator.py: linear_price_per_m2.                             *)
(***************************************************************************)
DefaultLowQty == 1
DefaultLowPrice == 3400
DefaultHighQty == 25
DefaultHighPrice == 2720

Return(v) == [exc |-> "None", val |-> v]

Raise(e) == [exc |-> e]

\* the interpolation without the two clamps
linear_price_per_m2_unclamped(q, lq, lp, hq, hp) ==
    LET frac == FDiv(Float(q - lq), Float(hq - lq))
    IN  IF Raised(frac) THEN Raise("ZeroDivisionError")
        ELSE Return(FAdd(lp, FMul(frac, FSub(hp, lp))))

linear_price_per_m2(q, lq, lp, hq, hp) ==
    IF q <= lq THEN Return(lp)
    ELSE IF q >= hq THEN Return(hp)
    ELSE LET frac == FDiv(Float(q - lq), Float(hq - lq))
         IN  IF Raised(frac) THEN Raise("ZeroDivisionError")
             ELSE Return(FAdd(lp, FMul(frac, FSub(hp, lp))))

(***************************************************************************)
(* led_wall_estimator_profit_Version3.py: linear_price_per_m2.             *)
(***************************************************************************)
linear_price_per_m2_v3(q, lq, lp, hq, hp) ==
    IF q <= lq THEN Return(lp)
    ELSE IF q >= hq THEN Return(hp)
    ELSE LET frac == FDiv(Float(q - lq), Float(hq - lq))
         IN  IF Raised(frac) THEN Raise("ZeroDivisionError")
             ELSE Return(FAdd(lp, FMul(frac, FSub(hp, lp))))

(***************************************************************************)
(* led_wall_estimator.py: compute_costs (shipping and extras itemised).    *)
(***************************************************************************)
TieredMode == "Tiered (linear 1->25)"

CustomMode == "Custom fixed per-m2"

\* cabinet_w * cabinet_h, 0.5 * 0.5
area_per_cab == FMul(<<1, 2>>, <<1, 2>>)

\* sum([float(x.get("cost", 0)) for x in extra_items])
RECURSIVE ExtrasTotal(_)
ExtrasTotal(items) ==
    IF items = <<>> THEN Float(0)
    ELSE FAdd(ExtrasTotal(SubSeq(items, 1, Len(items) - 1)), items[Len(items)].cost)

\* the division by 100 left out
ShippingAmountNoPercent(subtotal, pct) == FMul(subtotal, Float(pct))

\* subtotal * (shipping_pct / 100.0)
ShippingAmount(subtotal, pct) == FMul(subtotal, FDiv(Float(pct), Float(100)))

\* the zero guard left out
PerUnitUnguarded(total, n) == FDiv(total, n)

\* grand_total / n if n > 0 else 0.0
PerUnit(total, n) == IF FLt(Float(0), n) THEN FDiv(total, n) ELSE Float(0)

\* grand_total * qty
OrderTotal(total, q) == FMul(total, Float(q))

\* the shipping taken off instead of added
GrandTotalLessShipping(subtotal, amount) == FSub(subtotal, amount)

\* subtotal + shipping_amount
GrandTotal(subtotal, amount) == FAdd(subtotal, amount)

compute_costs(c, r, q, mode, custom, controller, pct, extra_items) ==
    LET cabinets == c * r
        area_m2 == FMul(Float(cabinets), area_per_cab)
        price == IF mode = TieredMode
                 THEN linear_price_per_m2(q, DefaultLowQty, Float(DefaultLowPrice),
                                          DefaultHighQty, Float(DefaultHighPrice))
                 ELSE Return(custom)
    IN  IF price.exc # "None" THEN Raise(price.exc)
        ELSE
        LET base_price_m2 == price.val
            base_hardware == FMul(area_m2, base_price_m2)
            controller_total == controller
            extras_total == ExtrasTotal(extra_items)
            subtotal == FAdd(FAdd(base_hardware, controller_total), extras_total)
            shipping_amount == ShippingAmount(subtotal, pct)
            grand_total == GrandTotal(subtotal, shipping_amount)
            per_m2 == PerUnit(grand_total, area_m2)
            per_cab == PerUnit(grand_total, Float(cabinets))
            order_total == OrderTotal(grand_total, q)
        IN  IF Raised(per_m2) \/ Raised(per_cab) THEN Raise("ZeroDivisionError")
            ELSE [exc |-> "None",
                  area_m2 |-> area_m2,
                  cabinets |-> cabinets,
                  width_m |-> FMul(Float(c), <<1, 2>>),
                  height_m |-> FMul(Float(r), <<1, 2>>),
                  base_price_m2 |-> base_price_m2,
                  base_hardware |-> base_hardware,
                  controller_total |-> controller_total,
                  extras_total |-> extras_total,
                  shipping_pct |-> pct,
                  shipping_amount |-> shipping_amount,
                  grand_total |-> grand_total,
                  per_m2 |-> per_m2,
                  per_cabinet |-> per_cab,
                  order_total |-> order_total]

(***************************************************************************)
(* led_wall_estimator_profit_Version3.py: compute_costs (tier markup).     *)
(***************************************************************************)
\* the division by 100 left out
MarkupAmountNoPercent(subtotal, pct) == FMul(subtotal, Float(pct))

\* subtotal * (markup_pct / 100.0)
MarkupAmount(subtotal, pct) == FMul(subtotal, FDiv(Float(pct), Float(100)))

\* grand_total / n if n > 0 else 0.0
PerUnitV3(total, n) == IF FLt(Float(0), n) THEN FDiv(total, n) ELSE Float(0)

\* the multiplication by the quantity left out
OrderTotalV3Single(total, q) == total

\* grand_total * qty
OrderTotalV3(total, q) == FMul(total, Float(q))

\* subtotal + markup_amount
GrandTotalV3(subtotal, amount) == FAdd(subtotal, amount)

compute_costs_v3(c, r, q, mode, custom, controller, pct) ==
    LET cabinets == c * r
        area_m2 == FMul(Float(cabinets), area_per_cab)
        price == IF mode = TieredMode
                 THEN linear_price_per_m2_v3(q, DefaultLowQty, Float(DefaultLowPrice),
                                             DefaultHighQty, Float(DefaultHighPrice))
                 ELSE Return(custom)
    IN  IF price.exc # "None" THEN Raise(price.exc)
        ELSE
        LET base_price_m2 == price.val
            base_hardware == FMul(area_m2, base_price_m2)
            controller_total == controller
            subtotal == FAdd(base_hardware, controller_total)
            markup_amount == MarkupAmount(subtotal, pct)
            grand_total == GrandTotalV3(subtotal, markup_amount)
            per_m2 == PerUnitV3(grand_total, area_m2)
            per_cab == PerUnitV3(grand_total, Float(cabinets))
            order_total == OrderTotalV3(grand_total, q)
        IN  IF Raised(per_m2) \/ Raised(per_cab) THEN Raise("ZeroDivisionError")
            ELSE [exc |-> "None",
                  area_m2 |-> area_m2,
                  cabinets |-> cabinets,
                  width_m |-> FMul(Float(c), <<1, 2>>),
                  height_m |-> FMul(Float(r), <<1, 2>>),
                  base_price_m2 |-> base_price_m2,
                  base_hardware |-> base_hardware,
                  controller_total |-> controller_total,
                  markup_pct |-> pct,
                  markup_amount |-> markup_amount,
                  grand_total |-> grand_total,
                  per_m2 |-> per_m2,
                  per_cabinet |-> per_cab,
                  order_total |-> order_total]

\* the table with Level B's entry mistyped
TierToMarkupMistyped(tier) ==
    CASE tier = "Level A" -> 10
      [] tier = "Level B" -> 30
      [] tier = "Level C" -> 30
      [] OTHER -> 20

\* _tier_to_markup.get(pricing_tier, 20)
TierToMarkup(tier) ==
    CASE tier = "Level A" -> 10
      [] tier = "Level B" -> 20
      [] tier = "Level C" -> 30
      [] OTHER -> 20

(***************************************************************************)
(* led_wall_estimator.py: parsing of the "Label:Cost" text area.           *)
(***************************************************************************)
Digits == {"0", "1", "2", "3", "4", "5", "6", "7", "8", "9"}

DigitVal(ch) ==
    CASE ch = "0" -> 0 [] ch = "1" -> 1 [] ch = "2" -> 2 [] ch = "3" -> 3
      [] ch = "4" -> 4 [] ch = "5" -> 5 [] ch = "6" -> 6 [] ch = "7" -> 7
      [] ch = "8" -> 8 [] ch = "9" -> 9

IsSpace(ch) == ch \in {" ", "\n"}

Contains(s, ch) == \E i \in 1..Len(s) : s[i] = ch

\* index of the first ch in s, 0 when there is none
Find(s, ch) ==
    IF Contains(s, ch)
    THEN CHOOSE i \in 1..Len(s) : s[i] = ch /\ \A j \in 1..(i - 1) : s[j] # ch
    ELSE 0

\* str.strip()
Strip(s) ==
    LET keep == {i \in 1..Len(s) : ~IsSpace(s[i])}
    IN  IF keep = {} THEN <<>>
        ELSE SubSeq(s, CHOOSE i \in keep : \A j \in keep : i <= j,
                       CHOOSE i \in keep : \A j \in keep : j <= i)

\* str.splitlines(): a trailing line break opens no further line
RECURSIVE SplitLines(_)
SplitLines(s) ==
    IF s = <<>> THEN <<>>
    ELSE LET i == Find(s, "\n")
         IN  IF i = 0 THEN <<s>>
             ELSE <<SubSeq(s, 1, i - 1)>> \o SplitLines(SubSeq(s, i + 1, Len(s)))

RECURSIVE DigitsVal(_)
DigitsVal(s) ==
    IF s = <<>> THEN 0
    ELSE DigitsVal(SubSeq(s, 1, Len(s) - 1)) * 10 + DigitVal(s[Len(s)])

\* float(text) on optionally signed decimal integers between white space;
\* anything else over the characters of the model raises ValueError
ParseFloat(s) ==
    LET t == Strip(s)
        signed == t # <<>> /\ t[1] \in {"-", "+"}
        body == IF signed THEN Tail(t) ELSE t
    IN  IF body # <<>> /\ \A i \in 1..Len(body) : body[i] \in Digits
        THEN [ok |-> TRUE,
              val |-> Float(IF signed /\ t[1] = "-" THEN -DigitsVal(body)
                            ELSE DigitsVal(body))]
        ELSE [ok |-> FALSE]

\* one turn of the loop: the items the line appends (one or none)
ParseLine(line) ==
    IF ~Contains(line, ":") THEN <<>>
    ELSE LET i == Find(line, ":")
             label == SubSeq(line, 1, i - 1)
             cost == ParseFloat(Strip(SubSeq(line, i + 1, Len(line))))
         IN  IF cost.ok THEN <<[label |-> Strip(label), cost |-> cost.val]>>
             ELSE <<>>

\* the loop left at the first line that appends nothing
RECURSIVE ParseLinesUntilBad(_)
ParseLinesUntilBad(lines) ==
    IF lines = <<>> THEN <<>>
    ELSE IF ParseLine(Head(lines)) = <<>> THEN <<>>
    ELSE ParseLine(Head(lines)) \o ParseLinesUntilBad(Tail(lines))

RECURSIVE ParseLines(_)
ParseLines(lines) ==
    IF lines = <<>> THEN <<>>
    ELSE ParseLines(SubSeq(lines, 1, Len(lines) - 1)) \o ParseLine(lines[Len(lines)])

ParseExtras(text) ==
    IF Strip(text) = <<>> THEN <<>> ELSE ParseLines(SplitLines(text))

DefaultExtrasText ==
    <<"S", "p", "a", "r", "e", " ", "m", "o", "d", "u", "l", "e",
          "s", " ", "b", "u", "n", "d", "l", "e", ":", "3", "0", "0",
          "\n">>
    \o <<"S", "p", "a", "r", "e", " ", "P", "S", "U", "s", " ", "&",
          " ", "r", "e", "c", "e", "i", "v", "i", "n", "g", " ", "c",
          "a", "r", "d", "s", ":", "2", "5", "0", "\n">>
    \o <<"V", "a", "c", "u", "u", "m", " ", "t", "o", "o", "l", " ",
          "&", " ", "r", "a", "i", "l", "s", ":", "2", "0", "0">>

(***************************************************************************)
(* Bounds and the values the inputs are drawn from.                        *)
(***************************************************************************)
MaxCols == 4
MaxRows == 3
MaxDim == 2
MaxInterpQty == 26
MaxTextLen == 7

DefaultCols == 10

QtyChoices == {1, 2, 13, 25, 26}
ColsChoices == (1..MaxCols) \cup {DefaultCols}
RowsChoices == 1..MaxRows
PriceChoices == {Float(0), Float(3000), Float(3400)}
ControllerChoices == {Float(0), Float(325)}
ShippingChoices == {0, 15, 40}
ModeChoices == {TieredMode, CustomMode}
TierChoices == {"Level A", "Level B", "Level C"}
TypedChars == {":", "5", "-", " ", "\n"}
ExtrasSamples ==
    {DefaultExtrasText, <<>>, <<"R", "i", "g", ":", "5", "0">>}

NotCalled == [exc |-> "NotCalled"]

NoPrev == [changed |-> "none"]

(***************************************************************************)
(* The variables a specification does not use keep these values.           *)
(***************************************************************************)
IdleTransparent ==
    /\ shipping_pct = 15
    /\ extra_items_data = <<>>
    /\ extras = <<>>
    /\ result = NotCalled

IdleProfit ==
    /\ pricing_tier = "Level B"
    /\ markup_pct = 20
    /\ result_v3 = NotCalled

IdleGate ==
    /\ admin_key = ""
    /\ requested_tier = "Level B"

IdleInterp ==
    /\ low_qty = DefaultLowQty
    /\ low_price = Float(DefaultLowPrice)
    /\ high_qty = DefaultHighQty
    /\ high_price = Float(DefaultHighPrice)
    /\ rate = NotCalled
    /\ rate_v3 = NotCalled

IdleHarness == prev = NoPrev

transparentVars == <<shipping_pct, extra_items_data, extras, result>>
profitVars == <<pricing_tier, markup_pct, result_v3>>
gateVars == <<admin_key, requested_tier>>
interpVars == <<low_qty, low_price, high_qty, high_price, rate, rate_v3>>

(***************************************************************************)
(* led_wall_estimator.py, the script: every change of a widget reruns it   *)
(* from the top: the extras are parsed again and compute_costs is called.  *)
(***************************************************************************)
InitWidgets ==
    /\ qty = 1
    /\ price_mode = TieredMode
    /\ custom_price_m2 = Float(3400)
    /\ controller_cost = Float(325)
    /\ cols = DefaultCols
    /\ rows = 3

Init ==
    /\ InitWidgets
    /\ shipping_pct = 15
    /\ extra_items_data = DefaultExtrasText
    /\ extras = ParseExtras(DefaultExtrasText)
    /\ result = compute_costs(DefaultCols, 3, 1, TieredMode, Float(3400), Float(325),
                              15, ParseExtras(DefaultExtrasText))
    /\ IdleProfit /\ IdleGate /\ IdleInterp /\ IdleHarness

\* the rest of the script once the widgets hold their new values
Rerun ==
    /\ extras' = ParseExtras(extra_items_data')
    /\ result' = compute_costs(cols', rows', qty', price_mode', custom_price_m2',
                               controller_cost', shipping_pct', extras')
    /\ UNCHANGED <<profitVars, gateVars, interpVars, prev>>

SetQty(q) ==
    /\ qty' = q
    /\ UNCHANGED <<price_mode, custom_price_m2, controller_cost, shipping_pct,
                   extra_items_data, cols, rows>>
    /\ Rerun

SetPriceMode(m) ==
    /\ price_mode' = m
    /\ UNCHANGED <<qty, custom_price_m2, controller_cost, shipping_pct,
                   extra_items_data, cols, rows>>
    /\ Rerun

SetCustomPrice(p) ==
    /\ custom_price_m2' = p
    /\ UNCHANGED <<qty, price_mode, controller_cost, shipping_pct,
                   extra_items_data, cols, rows>>
    /\ Rerun

SetControllerCost(c) ==
    /\ controller_cost' = c
    /\ UNCHANGED <<qty, price_mode, custom_price_m2, shipping_pct,
                   extra_items_data, cols, rows>>
    /\ Rerun

SetShippingPct(p) ==
    /\ shipping_pct' = p
    /\ UNCHANGED <<qty, price_mode, custom_price_m2, controller_cost,
                   extra_items_data, cols, rows>>
    /\ Rerun

SetExtrasText(t) ==
    /\ extra_items_data' = t
    /\ UNCHANGED <<qty, price_mode, custom_price_m2, controller_cost,
                   shipping_pct, cols, rows>>
    /\ Rerun

SetCols(c) ==
    /\ cols' = c
    /\ UNCHANGED <<qty, price_mode, custom_price_m2, controller_cost,
                   shipping_pct, extra_items_data, rows>>
    /\ Rerun

SetRows(r) ==
    /\ rows' = r
    /\ UNCHANGED <<qty, price_mode, custom_price_m2, controller_cost,
                   shipping_pct, extra_items_data, cols>>
    /\ Rerun

Next ==
    \/ \E q \in QtyChoices : SetQty(q)
    \/ \E m \in ModeChoices : SetPriceMode(m)
    \/ \E p \in PriceChoices : SetCustomPrice(p)
    \/ \E c \in ControllerChoices : SetControllerCost(c)
    \/ \E p \in ShippingChoices : SetShippingPct(p)
    \/ \E t \in ExtrasSamples : SetExtrasText(t)
    \/ \E c \in ColsChoices : SetCols(c)
    \/ \E r \in RowsChoices : SetRows(r)

Spec == Init /\ [][Next]_vars

(***************************************************************************)
(* The same script with the text area edited one character at a time, the  *)
(* other widgets left at their defaults.                                   *)
(***************************************************************************)
TypeChar(ch) ==
    /\ Len(extra_items_data) < MaxTextLen
    /\ SetExtrasText(Append(extra_items_data, ch))

ClearExtras ==
    /\ extra_items_data # <<>>
    /\ SetExtrasText(<<>>)

NextExtras ==
    \/ \E ch \in TypedChars : TypeChar(ch)
    \/ ClearExtras

SpecExtras == Init /\ [][NextExtras]_vars

(***************************************************************************)
(* led_wall_estimator_profit_Version3.py, the script: the tier selector    *)
(* is open to every user; the markup is read from the tier table.          *)
(***************************************************************************)
InitProfit ==
    /\ InitWidgets
    /\ pricing_tier = "Level B"
    /\ markup_pct = TierToMarkup("Level B")
    /\ result_v3 = compute_costs_v3(DefaultCols, 3, 1, TieredMode, Float(3400),
                                    Float(325), TierToMarkup("Level B"))
    /\ IdleTransparent /\ IdleGate /\ IdleInterp /\ IdleHarness

RerunProfit ==
    /\ markup_pct' = TierToMarkup(pricing_tier')
    /\ result_v3' = compute_costs_v3(cols', rows', qty', price_mode', custom_price_m2',
                                     controller_cost', markup_pct')
    /\ UNCHANGED <<transparentVars, gateVars, interpVars, prev>>

ProfitSetQty(q) ==
    /\ qty' = q
    /\ UNCHANGED <<price_mode, custom_price_m2, controller_cost, pricing_tier, cols, rows>>
    /\ RerunProfit

ProfitSetPriceMode(m) ==
    /\ price_mode' = m
    /\ UNCHANGED <<qty, custom_price_m2, controller_cost, pricing_tier, cols, rows>>
    /\ RerunProfit

ProfitSetCustomPrice(p) ==
    /\ custom_price_m2' = p
    /\ UNCHANGED <<qty, price_mode, controller_cost, pricing_tier, cols, rows>>
    /\ RerunProfit

ProfitSetControllerCost(c) ==
    /\ controller_cost' = c
    /\ UNCHANGED <<qty, price_mode, custom_price_m2, pricing_tier, cols, rows>>
    /\ RerunProfit

SelectTier(t) ==
    /\ pricing_tier' = t
    /\ UNCHANGED <<qty, price_mode, custom_price_m2, controller_cost, cols, rows>>
    /\ RerunProfit

ProfitSetCols(c) ==
    /\ cols' = c
    /\ UNCHANGED <<qty, price_mode, custom_price_m2, controller_cost, pricing_tier, rows>>
    /\ RerunProfit

ProfitSetRows(r) ==
    /\ rows' = r
    /\ UNCHANGED <<qty, price_mode, custom_price_m2, controller_cost, pricing_tier, cols>>
    /\ RerunProfit

NextProfit ==
    \/ \E q \in QtyChoices : ProfitSetQty(q)
    \/ \E m \in ModeChoices : ProfitSetPriceMode(m)
    \/ \E p \in PriceChoices : ProfitSetCustomPrice(p)
    \/ \E c \in ControllerChoices : ProfitSetControllerCost(c)
    \/ \E t \in TierChoices : SelectTier(t)
    \/ \E c \in ColsChoices : ProfitSetCols(c)
    \/ \E r \in RowsChoices : ProfitSetRows(r)

SpecProfit == InitProfit /\ [][NextProfit]_vars

(***************************************************************************)
(* The access-gated variant of the masked script (not among the source     *)
(* files): an admin key, compared with a constant string, decides the      *)
(* access level; under Standard access the tier is forced to Level B.      *)
(***************************************************************************)
AdminKey == "admin-key"

KeyChoices == {"", "guess", AdminKey}

RequestChoices == TierChoices \cup {"Level D"}

AccessLevel(key) == IF key = AdminKey THEN "Privileged" ELSE "Standard"

ResolveTier(level, requested) ==
    IF level = "Privileged" THEN requested ELSE "Level B"

InitGate ==
    /\ InitWidgets
    /\ admin_key = ""
    /\ requested_tier = "Level B"
    /\ pricing_tier = ResolveTier(AccessLevel(""), "Level B")
    /\ markup_pct = TierToMarkup(ResolveTier(AccessLevel(""), "Level B"))
    /\ result_v3 = compute_costs_v3(DefaultCols, 3, 1, TieredMode, Float(3400), Float(325),
                       TierToMarkup(ResolveTier(AccessLevel(""), "Level B")))
    /\ IdleTransparent /\ IdleInterp /\ IdleHarness

RerunGate ==
    /\ pricing_tier' = ResolveTier(AccessLevel(admin_key'), requested_tier')
    /\ markup_pct' = TierToMarkup(pricing_tier')
    /\ result_v3' = compute_costs_v3(cols', rows', qty', price_mode', custom_price_m2',
                                     controller_cost', markup_pct')
    /\ UNCHANGED <<transparentVars, interpVars, prev>>

EnterKey(k) ==
    /\ admin_key' = k
    /\ UNCHANGED <<requested_tier, qty, price_mode, custom_price_m2, controller_cost,
                   cols, rows>>
    /\ RerunGate

RequestTier(t) ==
    /\ requested_tier' = t
    /\ UNCHANGED <<admin_key, qty, price_mode, custom_price_m2, controller_cost,
                   cols, rows>>
    /\ RerunGate

GateSetQty(q) ==
    /\ qty' = q
    /\ UNCHANGED <<admin_key, requested_tier, price_mode, custom_price_m2,
                   controller_cost, cols, rows>>
    /\ RerunGate

GateSetPriceMode(m) ==
    /\ price_mode' = m
    /\ UNCHANGED <<admin_key, requested_tier, qty, custom_price_m2,
                   controller_cost, cols, rows>>
    /\ RerunGate

NextGate ==
    \/ \E k \in KeyChoices : EnterKey(k)
    \/ \E t \in RequestChoices : RequestTier(t)
    \/ \E q \in QtyChoices : GateSetQty(q)
    \/ \E m \in ModeChoices : GateSetPriceMode(m)

SpecGate == InitGate /\ [][NextGate]_vars

(***************************************************************************)
(* linear_price_per_m2 called with calibration points of the caller's:     *)
(* the arguments are drawn, then each file's function is applied.          *)
(***************************************************************************)
CalQtyChoices == {1, 5, 13, 25}

CalPriceChoices == {Float(3400), Float(2720), Float(100)}

InitInterp ==
    /\ qty \in 0..MaxInterpQty
    /\ low_qty \in CalQtyChoices
    /\ high_qty \in CalQtyChoices
    /\ low_price \in CalPriceChoices
    /\ high_price \in CalPriceChoices
    /\ rate = NotCalled
    /\ rate_v3 = NotCalled
    /\ price_mode = TieredMode
    /\ custom_price_m2 = Float(3400)
    /\ controller_cost = Float(325)
    /\ cols = DefaultCols
    /\ rows = 3
    /\ IdleTransparent /\ IdleProfit /\ IdleGate /\ IdleHarness

CallLinearPrice ==
    /\ rate = NotCalled
    /\ rate' = linear_price_per_m2(qty, low_qty, low_price, high_qty, high_price)
    /\ UNCHANGED <<cols, rows, qty, price_mode, custom_price_m2, controller_cost,
                   transparentVars, profitVars, gateVars,
                   low_qty, low_price, high_qty, high_price, rate_v3, prev>>

CallLinearPriceV3 ==
    /\ rate_v3 = NotCalled
    /\ rate_v3' = linear_price_per_m2_v3(qty, low_qty, low_price, high_qty, high_price)
    /\ UNCHANGED <<cols, rows, qty, price_mode, custom_price_m2, controller_cost,
                   transparentVars, profitVars, gateVars,
                   low_qty, low_price, high_qty, high_price, rate, prev>>

NextInterp ==
    \/ CallLinearPrice
    \/ CallLinearPriceV3

SpecInterp == InitInterp /\ [][NextInterp]_vars

(***************************************************************************)
(* compute_costs of both files called directly, one argument changed from  *)
(* one call to the next.  prev keeps, of the call before, the totals and   *)
(* the one argument that was raised (or "qty" when the quantity changed).  *)
(***************************************************************************)
DimChoices == 0..MaxDim

CallQtyChoices == {1, 13, 26}

ItemsChoices ==
    {<<>>,
     <<[label |-> <<"R", "i", "g">>, cost |-> Float(300)]>>,
     <<[label |-> <<"R", "i", "g">>, cost |-> Float(300)],
       [label |-> <<"P", "S", "U">>, cost |-> Float(250)]>>}

\* what the widgets and the data model allow the engine to be called with
Validated(c, r, q, custom, controller, pct, mpct, items) ==
    /\ c >= 1 /\ r >= 1 /\ q >= 1
    /\ FLe(Float(0), custom)
    /\ FLe(Float(0), controller)
    /\ pct >= 0 /\ mpct >= 0
    /\ \A i \in 1..Len(items) : FLe(Float(0), items[i].cost)

InitCosts ==
    /\ cols = 1 /\ rows = 1 /\ qty = 1
    /\ price_mode = TieredMode
    /\ custom_price_m2 = Float(3400)
    /\ controller_cost = Float(325)
    /\ shipping_pct = 15
    /\ markup_pct = 15
    /\ extras = <<>>
    /\ extra_items_data = <<>>
    /\ pricing_tier = "Level B"
    /\ result = NotCalled
    /\ result_v3 = NotCalled
    /\ prev = NoPrev
    /\ IdleGate /\ IdleInterp

\* both functions applied to the arguments the next state holds
CallBoth(changed) ==
    /\ result' = compute_costs(cols', rows', qty', price_mode', custom_price_m2',
                               controller_cost', shipping_pct', extras')
    /\ result_v3' = compute_costs_v3(cols', rows', qty', price_mode', custom_price_m2',
                                     controller_cost', markup_pct')
    /\ prev' = IF changed # "none" /\ result.exc = "None" /\ result_v3.exc = "None"
               THEN [changed |-> changed,
                     valid |-> Validated(cols, rows, qty, custom_price_m2,
                                         controller_cost, shipping_pct, markup_pct, extras),
                     grand_total |-> result.grand_total,
                     grand_total_v3 |-> result_v3.grand_total]
               ELSE NoPrev
    /\ UNCHANGED <<extra_items_data, pricing_tier, gateVars, interpVars>>

CostsCall ==
    /\ result = NotCalled
    /\ UNCHANGED <<cols, rows, qty, price_mode, custom_price_m2, controller_cost,
                   shipping_pct, markup_pct, extras>>
    /\ CallBoth("none")

CostsSetCols(c) ==
    /\ result # NotCalled
    /\ cols' = c
    /\ UNCHANGED <<rows, qty, price_mode, custom_price_m2, controller_cost,
                   shipping_pct, markup_pct, extras>>
    /\ CallBoth("none")

CostsSetRows(r) ==
    /\ result # NotCalled
    /\ rows' = r
    /\ UNCHANGED <<cols, qty, price_mode, custom_price_m2, controller_cost,
                   shipping_pct, markup_pct, extras>>
    /\ CallBoth("none")

CostsSetQty(q) ==
    /\ result # NotCalled
    /\ qty' = q
    /\ UNCHANGED <<cols, rows, price_mode, custom_price_m2, controller_cost,
                   shipping_pct, markup_pct, extras>>
    /\ CallBoth(IF q # qty THEN "qty" ELSE "none")

CostsSetPriceMode(m) ==
    /\ result # NotCalled
    /\ price_mode' = m
    /\ UNCHANGED <<cols, rows, qty, custom_price_m2, controller_cost,
                   shipping_pct, markup_pct, extras>>
    /\ CallBoth("none")

CostsSetCustomPrice(p) ==
    /\ result # NotCalled
    /\ custom_price_m2' = p
    /\ UNCHANGED <<cols, rows, qty, price_mode, controller_cost,
                   shipping_pct, markup_pct, extras>>
    /\ CallBoth(IF FLt(custom_price_m2, p) /\ price_mode = CustomMode
                THEN "custom_price_m2" ELSE "none")

CostsSetControllerCost(c) ==
    /\ result # NotCalled
    /\ controller_cost' = c
    /\ UNCHANGED <<cols, rows, qty, price_mode, custom_price_m2,
                   shipping_pct, markup_pct, extras>>
    /\ CallBoth(IF FLt(controller_cost, c) THEN "controller_cost" ELSE "none")

\* the percentage: shipping_pct of the one function, markup_pct of the other
CostsSetPct(p) ==
    /\ result # NotCalled
    /\ shipping_pct' = p
    /\ markup_pct' = p
    /\ UNCHANGED <<cols, rows, qty, price_mode, custom_price_m2, controller_cost,
                   extras>>
    /\ CallBoth(IF shipping_pct < p /\ markup_pct < p THEN "pct" ELSE "none")

CostsSetExtras(items) ==
    /\ result # NotCalled
    /\ extras' = items
    /\ UNCHANGED <<cols, rows, qty, price_mode, custom_price_m2, controller_cost,
                   shipping_pct, markup_pct>>
    /\ CallBoth(IF FLt(ExtrasTotal(extras), ExtrasTotal(items)) THEN "extras" ELSE "none")

NextCosts ==
    \/ CostsCall
    \/ \E c \in DimChoices : CostsSetCols(c)
    \/ \E r \in DimChoices : CostsSetRows(r)
    \/ \E q \in CallQtyChoices : CostsSetQty(q)
    \/ \E m \in ModeChoices : CostsSetPriceMode(m)
    \/ \E p \in PriceChoices : CostsSetCustomPrice(p)
    \/ \E c \in ControllerChoices : CostsSetControllerCost(c)
    \/ \E p \in ShippingChoices : CostsSetPct(p)
    \/ \E items \in ItemsChoices : CostsSetExtras(items)

SpecCosts == InitCosts /\ [][NextCosts]_vars

(***************************************************************************)
(* Properties.                                                             *)
(***************************************************************************)
DefaultCalibration ==
    /\ low_qty = DefaultLowQty /\ low_price = Float(DefaultLowPrice)
    /\ high_qty = DefaultHighQty /\ high_price = Float(DefaultHighPrice)

\* r is the price the interpolator owes for q between (lq, lp) and (hq, hp), lq < hq
Interpolates(r, q, lq, lp, hq, hp) ==
    /\ r.exc = "None"
    /\ (q <= lq => r.val = lp)
    /\ (q >= hq => r.val = hp)
    /\ (lq < q /\ q < hq =>
          FMul(r.val, Float(hq - lq))
            = FAdd(FMul(lp, Float(hq - lq)), FMul(Float(q - lq), FSub(hp, lp))))

\* C1: with low_qty < high_qty, linear_price_per_m2 (of either file) returns
\* low_price for qty <= low_qty, high_price for qty >= high_qty and the point of
\* the straight line between the two calibration points for a qty between them;
\* with the defaults that is 3400 at 1, 3060 at 13 and 2720 at 25.
C1_Interpolation ==
    /\ (rate # NotCalled /\ low_qty < high_qty) =>
          /\ Interpolates(rate, qty, low_qty, low_price, high_qty, high_price)
          /\ (DefaultCalibration /\ qty = 1 => rate.val = Float(3400))
          /\ (DefaultCalibration /\ qty = 13 => rate.val = Float(3060))
          /\ (DefaultCalibration /\ qty = 25 => rate.val = Float(2720))
    /\ (rate_v3 # NotCalled /\ low_qty < high_qty) =>
          /\ Interpolates(rate_v3, qty, low_qty, low_price, high_qty, high_price)
          /\ (DefaultCalibration /\ qty = 1 => rate_v3.val = Float(3400))
          /\ (DefaultCalibration /\ qty = 13 => rate_v3.val = Float(3060))
          /\ (DefaultCalibration /\ qty = 25 => rate_v3.val = Float(2720))

C1_Witness ==
    /\ rate # NotCalled /\ rate_v3 # NotCalled
    /\ DefaultCalibration /\ qty = 13
    /\ rate.val = Float(3060) /\ rate_v3.val = Float(3060)

\* C2: called with low_qty >= high_qty, the interpolator raises an error for
\* every quantity instead of returning a price.
C2_DegenerateBoundsRaise ==
    /\ (rate # NotCalled /\ low_qty >= high_qty) => rate.exc # "None"
    /\ (rate_v3 # NotCalled /\ low_qty >= high_qty) => rate_v3.exc # "None"

C4_TransparentRollUp ==
    /\ result.exc = "None"
    /\ result.base_price_m2 =
          IF price_mode = TieredMode
          THEN linear_price_per_m2(qty, DefaultLowQty, Float(DefaultLowPrice),
                                   DefaultHighQty, Float(DefaultHighPrice)).val
          ELSE custom_price_m2
    /\ result.base_hardware = FMul(Frac(cols * rows, 4), result.base_price_m2)
    /\ result.extras_total = ExtrasTotal(extras)
    /\ FMul(result.shipping_amount, Float(100))
          = FMul(FAdd(FAdd(result.base_hardware, controller_cost), result.extras_total),
                 Float(shipping_pct))
    /\ result.grand_total
          = FAdd(FAdd(FAdd(result.base_hardware, controller_cost), result.extras_total),
                 result.shipping_amount)
    /\ (/\ price_mode = CustomMode /\ custom_price_m2 = Float(3000)
        /\ cols = 4 /\ rows = 2 /\ controller_cost = Float(325)
        /\ extras = <<>> /\ shipping_pct = 15)
          => /\ result.shipping_amount = Frac(94875, 100)
             /\ result.grand_total = Frac(727375, 100)

C4_Witness ==
    /\ price_mode = CustomMode /\ custom_price_m2 = Float(3000)
    /\ cols = 4 /\ rows = 2 /\ controller_cost = Float(325)
    /\ extras = <<>> /\ shipping_pct = 15
    /\ result.grand_total = Frac(727375, 100)

\* C5: the masked compute_costs returns markup_amount = (base_hardware +
\* controller) * markup_pct / 100 and grand_total = base_hardware + controller +
\* markup_amount, with base_hardware = area * base_rate and no extras term, the
\* percentage being the tier table's: Level A 10, Level B 20, Level C 30.
C5_MaskedRollUp ==
    /\ result_v3.exc = "None"
    /\ (pricing_tier = "Level A" => markup_pct = 10)
    /\ (pricing_tier = "Level B" => markup_pct = 20)
    /\ (pricing_tier = "Level C" => markup_pct = 30)
    /\ result_v3.markup_pct = markup_pct
    /\ result_v3.base_hardware = FMul(Frac(cols * rows, 4), result_v3.base_price_m2)
    /\ FMul(result_v3.markup_amount, Float(100))
          = FMul(FAdd(result_v3.base_hardware, controller_cost), Float(markup_pct))
    /\ result_v3.grand_total
          = FAdd(FAdd(result_v3.base_hardware, controller_cost), result_v3.markup_amount)

C5_Witness ==
    /\ pricing_tier = "Level C"
    /\ price_mode = CustomMode /\ custom_price_m2 = Float(3000)
    /\ cols = 4 /\ rows = 2 /\ controller_cost = Float(325)
    /\ result_v3.markup_amount = Frac(18975, 10)
    /\ result_v3.grand_total = Frac(82225, 10)

ValidatedNow ==
    Validated(cols, rows, qty, custom_price_m2, controller_cost, shipping_pct,
              markup_pct, extras)

\* C6: of two validated calls that differ only in a larger controller cost,
\* extras total, percentage or Custom-mode rate, the second grand_total (of
\* either compute_costs) is not below the first.
C6_Monotone ==
    (/\ prev.changed \in {"controller_cost", "extras", "pct", "custom_price_m2"}
     /\ prev.valid /\ ValidatedNow)
      => /\ result.exc = "None" /\ result_v3.exc = "None"
         /\ FLe(prev.grand_total, result.grand_total)
         /\ FLe(prev.grand_total_v3, result_v3.grand_total)

C6_Witness ==
    /\ prev.changed = "pct" /\ prev.valid /\ ValidatedNow
    /\ FLt(prev.grand_total, result.grand_total)
    /\ FLt(prev.grand_total_v3, result_v3.grand_total)

\* C7: every extra item the script hands to compute_costs has a cost >= 0.
C7_NoNegativeExtra ==
    \A i \in 1..Len(extras) : FLe(Float(0), extras[i].cost)

\* the text after the line's first ':'
CostText(line) == SubSeq(line, Find(line, ":") + 1, Len(line))

WellFormed(line) == Contains(line, ":") /\ ParseFloat(CostText(line)).ok

\* C8: a line without ':' or whose text after the first ':' is no number is
\* skipped and nothing is raised; the extras are exactly the well-formed lines,
\* in input order, and the computation runs on them.
C8_MalformedLinesSkipped ==
    LET lines == SplitLines(extra_items_data)
        good == {i \in 1..Len(lines) : WellFormed(lines[i])}
        nth(k) == CHOOSE i \in good : Cardinality({j \in good : j <= i}) = k
    IN  /\ Len(extras) = Cardinality(good)
        /\ \A k \in 1..Len(extras) :
              /\ extras[k].cost = ParseFloat(CostText(lines[nth(k)])).val
              /\ extras[k].label
                    = Strip(SubSeq(lines[nth(k)], 1, Find(lines[nth(k)], ":") - 1))
        /\ result.exc = "None"
        /\ result.extras_total = ExtrasTotal(extras)

C8_Witness ==
    LET lines == SplitLines(extra_items_data)
    IN  /\ Len(lines) = 3
        /\ WellFormed(lines[1]) /\ ~WellFormed(lines[2]) /\ WellFormed(lines[3])
        /\ Len(extras) = 2
        /\ extras[1].cost # extras[2].cost
        /\ extras[2].cost = ParseFloat(CostText(lines[3])).val

\* what a result owes for its two per-unit prices
PerUnitGuarded(r) ==
    /\ r.exc = "None"
    /\ (FLt(Float(0), r.area_m2) => FMul(r.per_m2, r.area_m2) = r.grand_total)
    /\ (r.area_m2 = Float(0) => r.per_m2 = Float(0))
    /\ (r.cabinets > 0 => FMul(r.per_cabinet, Float(r.cabinets)) = r.grand_total)
    /\ (r.cabinets = 0 => r.per_cabinet = Float(0))

\* C9: in both compute_costs, per_m2 is grand_total / area for area > 0 and 0
\* for area 0, per_cabinet is grand_total / cabinets for cabinets > 0 and 0 for
\* none; no call divides by zero, cols = 0 or rows = 0 included.
C9_ZeroGuard ==
    result # NotCalled => PerUnitGuarded(result) /\ PerUnitGuarded(result_v3)

C9_Witness ==
    /\ result # NotCalled
    /\ cols = 0 /\ rows > 0
    /\ result.exc = "None" /\ result_v3.exc = "None"
    /\ result.per_m2 = Float(0) /\ result_v3.per_cabinet = Float(0)
    /\ FLt(Float(0), result.grand_total)

\* C10: for qty >= 1 the order_total of both compute_costs is grand_total times
\* qty, and in Custom mode a change of qty alone leaves grand_total as it was.
C10_OrderTotal ==
    result # NotCalled =>
      /\ result.exc = "None" /\ result_v3.exc = "None"
      /\ FDiv(result.order_total, Float(qty)) = result.grand_total
      /\ FDiv(result_v3.order_total, Float(qty)) = result_v3.grand_total
      /\ (prev.changed = "qty" /\ price_mode = CustomMode =>
            /\ result.grand_total = prev.grand_total
            /\ result_v3.grand_total = prev.grand_total_v3)

C10_Witness ==
    /\ prev.changed = "qty" /\ price_mode = CustomMode /\ qty = 13
    /\ FLt(Float(0), result_v3.grand_total)
    /\ result.order_total = FMul(result.grand_total, Float(13))
    /\ result_v3.order_total = FMul(result_v3.grand_total, Float(13))

====
